---- MODULE Spec2Model ----
(***************************************************************************)
(* The proxied-request dispatcher of src/services/apiClient.ts             *)
(* (executeProxiedRequest): one dispatch, from the call to its return or   *)
(* throw, together with the storage it reads and the network it talks to.  *)
(*                                                                         *)
(* Representation of JavaScript values:                                    *)
(*   - a token is the sequence of its characters, so that slice(-6) is     *)
(*     computed; the empty sequence stands for undefined / '' (both falsy, *)
(*     and the code only ever tests truthiness);                           *)
(*   - a server URL, a service type are TLA+ strings; "" is the falsy      *)
(*     undefined / null / '';                                              *)
(*   - a message (Error.message, logContext) is the sequence of its words, *)
(*     so that String.includes and the `[status] message` prefix are       *)
(*     computed; <<>> is the falsy empty string.                           *)
(***************************************************************************)
EXTENDS Integers, Sequences, FiniteSets, TLC

VARIABLES
    \* ---- ambient storage and deployment context (read by the dispatcher)
    hostname,             \* window.location.hostname
    selectedProxyServer,  \* sessionStorage 'selectedProxyServer' ("" = unset)
    personalAuthToken,    \* localStorage currentUser.personalAuthToken (<<>> = none)
    veoAuthTokens,        \* sessionStorage 'veoAuthTokens': the shared pool
    \* ---- arguments of the call (immutable during the dispatch)
    serviceType, logContext, specificToken, overrideServerUrl,
    relativePath,         \* the path below /api/<serviceType>
    requestBody,          \* the object that is sent as the JSON body
    \* ---- locals of executeProxiedRequest
    pc,                   \* "start", "gate", "fetch", "returned", "thrown"
    currentServerUrl, attempts, usedAttempts, i, lastError,
    \* ---- what the dispatch produced
    result,               \* <<>> or <<the returned object>>
    thrown,               \* <<>> or <<the message of the error thrown to the caller>>
    \* ---- what the outside world saw
    resp,                 \* <<>> or <<how the latest fetch settled>>
    httpCalls,            \* the fetch calls issued, in order
    pending,              \* the positions in httpCalls of the fetches not yet settled
    gateCalls,            \* the request_generation_slot calls issued, in order
    gateOutcome,          \* <<>>, <<"granted">> or <<"failed", the error's message>>
    statusUpdates,        \* what onStatusUpdate received, in order
    logEntries,           \* the records handed to addLogEntry, in order
    \* ---- a second call of executeProxiedRequest, made with the same arguments
    peer,                 \* its locals, its outputs and what the world saw of it
    \* ---- ConsoleLogSidebar (src/components/ConsoleLogSidebar.tsx)
    logs,                 \* the state `logs`: the entries on display
    sinceClear,           \* every 'consoleLog' event received since the last clear
    arrivals,             \* how many 'consoleLog' events were received so far
    \* ---- ApiIntegrationsPanel (src/components/views/SettingsView.tsx)
    claimStatus,          \* 'idle', 'searching', 'success' or 'error'
    claimError,           \* <<>> (null) or the message on display
    claimStep,            \* where handleClaimNewToken stands: "idle", "clearing",
                          \* "assigning", or "timer" (the 2 s timeout is pending)
    claimTrace,           \* the calls of the latest handleClaimNewToken and how they
                          \* resolved, in order
    testingToken,         \* <<>> (null) or the token whose test is shown as running
    testResultsMap,       \* token -> <<>> or <<the results of its latest test>>
    testsInFlight         \* token -> the runComprehensiveTokenTest calls not yet resolved

storage == <<hostname, selectedProxyServer, personalAuthToken, veoAuthTokens>>
args    == <<serviceType, logContext, specificToken, overrideServerUrl,
             relativePath, requestBody>>
locals  == <<pc, currentServerUrl, attempts, usedAttempts, i, lastError>>
outputs == <<result, thrown>>
world   == <<resp, httpCalls, pending, gateCalls, gateOutcome, statusUpdates,
             logEntries>>
sidebar == <<logs, sinceClear, arrivals>>
settings == <<claimStatus, claimError, claimStep, claimTrace, testingToken,
              testResultsMap, testsInFlight>>
panels  == <<sidebar, settings>>
vars    == <<storage, args, locals, outputs, world, peer, panels>>

-----------------------------------------------------------------------------
(* Bounds of the model *)

\* the longest shared pool drawn in Init
MaxPool == 2

\* the longest shared pool the planner is given on its own
MaxLedger == 11

-----------------------------------------------------------------------------
(* Program constants *)

NewestPoolTokens == 10   \* allSharedTokens.slice(0, 10)
BackupServerCap  == 2    \* .slice(0, 2)
BackupTokenCap   == 3    \* shuffledPool.slice(0, 3)
FingerprintLen   == 6    \* attempt.token.slice(-6)
CooldownSeconds  == 10   \* cooldown_seconds: 10
BadRequest       == 400  \* status === 400

LocalProxyUrl   == "http://localhost:3001"
VeoDefaultUrl   == "https://veox.monoklix.com"
ImagenDefaultUrl == "https://gemx.monoklix.com"

\* PROXY_SERVER_URLS of ./serverConfig: a fixed list of proxy servers
FALLBACK_SERVERS == <<"https://s1.monoklix.com", "https://s2.monoklix.com",
                      "https://s3.monoklix.com">>

-----------------------------------------------------------------------------
(* Strings *)

Min(a, b) == IF a <= b THEN a ELSE b

Truthy(s) == s # <<>>

\* Array.prototype.slice(0, n) / String.prototype.slice(0, n)
SliceTo(s, n) == SubSeq(s, 1, Min(n, Len(s)))

\* String.prototype.slice(-n): the last n characters, the whole string when shorter
SliceLast(s, n) == IF Len(s) <= n THEN s ELSE SubSeq(s, Len(s) - n + 1, Len(s))

\* String.prototype.toLowerCase, word by word
LowerWord(w) ==
    CASE w = "Safety"  -> "safety"
      [] w = "BLOCKED" -> "blocked"
      [] OTHER         -> w

toLowerCase(msg) == [k \in 1..Len(msg) |-> LowerWord(msg[k])]

\* String.prototype.includes, on words
includes(msg, w) == \E k \in 1..Len(msg) : msg[k] = w

\* the template literals that embed the status
Bracketed(status)     == "[" \o ToString(status) \o "]"
Parenthesised(status) == "(" \o ToString(status) \o ")"

-----------------------------------------------------------------------------
(* The values the environment and the caller supply *)

T1 == <<"x", "a", "a", "a", "a", "a", "a">>   \* "xaaaaaa"
T2 == <<"y", "a", "a", "a", "a", "a", "a">>   \* "yaaaaaa": ends like T1
T3 == <<"b", "b", "b", "b", "b", "b">>        \* "bbbbbb"

\* the records the refresh process may have stored in the pool, in no
\* particular order; T1 is stored twice, under two dates
PoolRecords == << [token |-> T3, createdAt |-> 1], [token |-> T1, createdAt |-> 3],
                  [token |-> T2, createdAt |-> 2], [token |-> T1, createdAt |-> 0] >>

\* the sub-sequences of s of length at most n
RECURSIVE SubSeqsUpTo(_, _)
SubSeqsUpTo(s, n) ==
    IF Len(s) = 0 \/ n = 0 THEN { <<>> }
    ELSE SubSeqsUpTo(Tail(s), n)
         \cup { <<Head(s)>> \o r : r \in SubSeqsUpTo(Tail(s), n - 1) }

Pools == SubSeqsUpTo(PoolRecords, MaxPool)

T4 == <<"c", "c", "c", "c", "c", "c">>        \* "cccccc"
T5 == <<"d", "d", "d", "d", "d", "d">>        \* "dddddd"

\* a long pool, record by record in its stored order: four tokens that end
\* differently, the oldest of them T1, then T3 stored again and again under the
\* date it already has
LedgerRecord(k) ==
    CASE k = 1 -> [token |-> T4, createdAt |-> 5]
      [] k = 2 -> [token |-> T3, createdAt |-> 9]
      [] k = 3 -> [token |-> T5, createdAt |-> 2]
      [] k = 4 -> [token |-> T1, createdAt |-> 1]
      [] OTHER -> [token |-> T3, createdAt |-> 9]

\* the long pool when its first n records have been stored
LedgerPools == { [k \in 1..n |-> LedgerRecord(k)] : n \in 0..MaxLedger }

\* where the page runs and which proxy the user picked earlier: a development
\* machine with a remembered choice, production with one, production without
Deployments       == { <<"localhost", FALLBACK_SERVERS[1]>>,
                       <<"app.monoklix.com", FALLBACK_SERVERS[1]>>,
                       <<"app.monoklix.com", "">> }
PersonalTokens    == { <<>>, T1 }
ServiceTypes      == { "veo", "imagen" }
LogContexts       == { <<"VEO STATUS">>, <<"VEO", "GENERATE">>, <<"RECIPE">> }
SpecificTokens    == { <<>>, T1, T3 }
OverrideServers   == { "", FALLBACK_SERVERS[2] }

-----------------------------------------------------------------------------
(* Server Selector *)

\* a resolver that prefers the public veo endpoint to the user's choice
getVeoProxyUrlDefaultFirst ==
    IF hostname = "localhost" THEN LocalProxyUrl
    ELSE IF VeoDefaultUrl # "" THEN VeoDefaultUrl
    ELSE selectedProxyServer

getVeoProxyUrl ==
    IF hostname = "localhost" THEN LocalProxyUrl
    ELSE IF selectedProxyServer # "" THEN selectedProxyServer
    ELSE VeoDefaultUrl

getImagenProxyUrl ==
    IF hostname = "localhost" THEN LocalProxyUrl
    ELSE IF selectedProxyServer # "" THEN selectedProxyServer
    ELSE ImagenDefaultUrl

\* line 107
ResolveServer ==
    IF overrideServerUrl # "" THEN overrideServerUrl
    ELSE IF serviceType = "veo" THEN getVeoProxyUrl ELSE getImagenProxyUrl

\* a test that also sends every veo request through the gate
isGenerationRequestOrVeo ==
    \/ includes(logContext, "GENERATE") \/ includes(logContext, "RECIPE")
    \/ serviceType = "veo"

\* line 110
isGenerationRequest == includes(logContext, "GENERATE") \/ includes(logContext, "RECIPE")

isStatusCheck == logContext = <<"VEO STATUS">>

-----------------------------------------------------------------------------
(* Token Source Resolver *)

\* { token, createdAt: 'personal' } or null (here <<>>)
getPersonalToken == personalAuthToken

\* Array.prototype.sort with the comparator b.createdAt - a.createdAt: newest
\* first, records of equal date in their stored order (the sort is stable)
SortNewestFirst(s) ==
    [p \in 1..Len(s) |->
        s[CHOOSE j \in 1..Len(s) :
              Cardinality({ h \in 1..Len(s) :
                              \/ s[h].createdAt > s[j].createdAt
                              \/ s[h].createdAt = s[j].createdAt /\ h < j }) = p - 1]]

getSharedTokensFromSession == SortNewestFirst(veoAuthTokens)

\* s without its element at position k
RemoveAt(s, k) == SubSeq(s, 1, k - 1) \o SubSeq(s, k + 1, Len(s))

\* [...a].sort(() => 0.5 - Math.random()): the orders a random comparator can
\* leave the copy in, that is every arrangement of its elements
RECURSIVE Shuffles(_)
Shuffles(s) ==
    IF Len(s) = 0 THEN { <<>> }
    ELSE UNION { { <<s[k]>> \o r : r \in Shuffles(RemoveAt(s, k)) } :
                 k \in { j \in 1..Len(s) : \A h \in 1..(j - 1) : s[h] # s[j] } }

\* Array.prototype.filter(s => s !== x)
RECURSIVE FilterOut(_, _)
FilterOut(s, x) ==
    IF Len(s) = 0 THEN <<>>
    ELSE IF Head(s) = x THEN FilterOut(Tail(s), x)
    ELSE <<Head(s)>> \o FilterOut(Tail(s), x)

-----------------------------------------------------------------------------
(* Attempt Planner *)

\* `${attempt.token.slice(-6)}@${attempt.serverUrl}`
AttemptKey(attempt) == <<SliceLast(attempt.token, FingerprintLen), "@", attempt.serverUrl>>

Attempt(token, serverUrl, source) ==
    [token |-> token, serverUrl |-> serverUrl, source |-> source]

\* the planner's two locals
EmptyPlan == [attempts |-> <<>>, usedAttempts |-> {}]

\* a planner that pushes without consulting usedAttempts
addAttemptUnchecked(plan, attempt) ==
    [attempts     |-> Append(plan.attempts, attempt),
     usedAttempts |-> plan.usedAttempts \cup { AttemptKey(attempt) }]

addAttempt(plan, attempt) ==
    IF AttemptKey(attempt) \notin plan.usedAttempts
    THEN [attempts     |-> Append(plan.attempts, attempt),
          usedAttempts |-> plan.usedAttempts \cup { AttemptKey(attempt) }]
    ELSE plan

\* forEach(x => addAttempt(...)) over a list of attempts
RECURSIVE addAttempts(_, _)
addAttempts(plan, list) ==
    IF Len(list) = 0 THEN plan
    ELSE addAttempts(addAttempt(plan, Head(list)), Tail(list))

\* lines 150-152
Phase1(shuffledPool, server) ==
    [k \in 1..Len(shuffledPool) |-> Attempt(shuffledPool[k].token, server, "Pool")]

\* a second phase that takes the three newest tokens, not the three first
\* of the shuffle
RECURSIVE Phase2FromNewest(_, _)
Phase2FromNewest(shuffledPool, backupServers) ==
    IF Len(backupServers) = 0 THEN <<>>
    ELSE Phase1(SliceTo(getSharedTokensFromSession, BackupTokenCap), Head(backupServers))
         \o Phase2FromNewest(shuffledPool, Tail(backupServers))

\* a second phase that tries the whole shuffled pool on each backup server
RECURSIVE Phase2Uncapped(_, _)
Phase2Uncapped(shuffledPool, backupServers) ==
    IF Len(backupServers) = 0 THEN <<>>
    ELSE Phase1(shuffledPool, Head(backupServers))
         \o Phase2Uncapped(shuffledPool, Tail(backupServers))

\* lines 159-163
RECURSIVE Phase2(_, _)
Phase2(shuffledPool, backupServers) ==
    IF Len(backupServers) = 0 THEN <<>>
    ELSE Phase1(SliceTo(shuffledPool, BackupTokenCap), Head(backupServers))
         \o Phase2(shuffledPool, Tail(backupServers))

\* a shuffle of the whole pool, however long
ShuffledPoolsOfAll == Shuffles(getSharedTokensFromSession)

\* lines 146-147: the orders the shuffled pool can have
ShuffledPools == Shuffles(SliceTo(getSharedTokensFromSession, NewestPoolTokens))

\* a selection that keeps every other server
BackupChoicesUncapped(server) == Shuffles(FilterOut(FALLBACK_SERVERS, server))

\* lines 156-157: the backup servers the shuffle can select
BackupChoices(server) ==
    { SliceTo(s, BackupServerCap) : s \in Shuffles(FilterOut(FALLBACK_SERVERS, server)) }

\* a planner that looks at the personal token before the pinned one
BuildPlanPersonalFirst(server, shuffledPool, backupServers) ==
    LET personal == getPersonalToken IN
    IF Truthy(personal)
    THEN addAttempt(EmptyPlan, Attempt(personal, server, "Personal"))
    ELSE IF Truthy(specificToken)
    THEN addAttempt(EmptyPlan, Attempt(specificToken, server, "Specific"))
    ELSE LET phase1 == addAttempts(EmptyPlan, Phase1(shuffledPool, server))
         IN  IF overrideServerUrl = ""
             THEN addAttempts(phase1, Phase2(shuffledPool, backupServers))
             ELSE phase1

\* a planner that falls back to the pool after the personal token
BuildPlanPersonalThenPool(server, shuffledPool, backupServers) ==
    LET personal == getPersonalToken IN
    IF Truthy(specificToken)
    THEN addAttempt(EmptyPlan,
             Attempt(specificToken, server,
                     IF Truthy(personal) /\ personal = specificToken
                     THEN "Personal" ELSE "Specific"))
    ELSE LET first  == IF Truthy(personal)
                       THEN addAttempt(EmptyPlan, Attempt(personal, server, "Personal"))
                       ELSE EmptyPlan
             phase1 == addAttempts(first, Phase1(shuffledPool, server))
         IN  IF overrideServerUrl = ""
             THEN addAttempts(phase1, Phase2(shuffledPool, backupServers))
             ELSE phase1

\* a planner that adds the backup servers whether or not a server is forced
BuildPlanBackupsAlways(server, shuffledPool, backupServers) ==
    LET personal == getPersonalToken IN
    IF Truthy(specificToken)
    THEN addAttempt(EmptyPlan,
             Attempt(specificToken, server,
                     IF Truthy(personal) /\ personal = specificToken
                     THEN "Personal" ELSE "Specific"))
    ELSE IF Truthy(personal)
    THEN addAttempt(EmptyPlan, Attempt(personal, server, "Personal"))
    ELSE addAttempts(addAttempts(EmptyPlan, Phase1(shuffledPool, server)),
                     Phase2(shuffledPool, backupServers))

\* a planner that puts the backup servers before the primary one
BuildPlanBackupsFirst(server, shuffledPool, backupServers) ==
    LET personal == getPersonalToken IN
    IF Truthy(specificToken)
    THEN addAttempt(EmptyPlan,
             Attempt(specificToken, server,
                     IF Truthy(personal) /\ personal = specificToken
                     THEN "Personal" ELSE "Specific"))
    ELSE IF Truthy(personal)
    THEN addAttempt(EmptyPlan, Attempt(personal, server, "Personal"))
    ELSE IF overrideServerUrl = ""
         THEN addAttempts(addAttempts(EmptyPlan, Phase2(shuffledPool, backupServers)),
                          Phase1(shuffledPool, server))
         ELSE addAttempts(EmptyPlan, Phase1(shuffledPool, server))

\* lines 119-165: the plan, given the two shuffles
BuildPlan(server, shuffledPool, backupServers) ==
    LET personal == getPersonalToken IN
    IF Truthy(specificToken)
    THEN addAttempt(EmptyPlan,
             Attempt(specificToken, server,
                     IF Truthy(personal) /\ personal = specificToken
                     THEN "Personal" ELSE "Specific"))
    ELSE IF Truthy(personal)
    THEN addAttempt(EmptyPlan, Attempt(personal, server, "Personal"))
    ELSE LET phase1 == addAttempts(EmptyPlan, Phase1(shuffledPool, server))
         IN  IF overrideServerUrl = ""
             THEN addAttempts(phase1, Phase2(shuffledPool, backupServers))
             ELSE phase1

-----------------------------------------------------------------------------
(* The network: how a fetch can settle *)

Statuses == { 200, BadRequest, 500 }

\* response.ok
IsOk(status) == status >= 200 /\ status <= 299

\* the messages a proxy puts in its body
Quota      == <<"quota", "exceeded">>
SafetyText == <<"Safety", "filter">>
BlockedText == <<"prompt", "BLOCKED">>

\* the text of a response body, by what JSON.parse makes of it: not JSON;
\* the JSON value null; or an object with the two fields the code reads
\* (<<>> = field absent)
NotJson    == [json |-> "invalid", errorMessage |-> <<>>, message |-> <<>>]
JsonNull   == [json |-> "null",    errorMessage |-> <<>>, message |-> <<>>]
JsonObject(errorMessage, message) ==
    [json |-> "object", errorMessage |-> errorMessage, message |-> message]

Bodies == { NotJson, JsonNull, JsonObject(<<>>, <<>>),
            JsonObject(Quota, <<>>), JsonObject(SafetyText, <<>>),
            JsonObject(<<>>, BlockedText) }

\* the messages of the errors fetch rejects with
FetchErrors == { <<"Failed to fetch">>, <<"load", "blocked">> }

Rejected(error) == [kind |-> "rejected", status |-> 0, body |-> NotJson, error |-> error]
Response(status, body) ==
    [kind |-> "response", status |-> status, body |-> body, error |-> <<>>]

Settlements ==
    { Rejected(e) : e \in FetchErrors }
    \cup { Response(st, b) : st \in Statuses, b \in Bodies }

\* the messages of the errors a failed request_generation_slot call raises
GateErrors == { <<"slot", "unavailable">> }

-----------------------------------------------------------------------------
(* Execution loop: one iteration *)

\* a parse failure that leaves an empty object
ParseBodyEmptyOnFailure(status, body) ==
    IF body.json = "invalid" THEN JsonObject(<<>>, <<>>) ELSE body

\* lines 194-200
ParseBody(status, body) ==
    IF body.json = "invalid"
    THEN JsonObject(<<"Proxy returned non-JSON", Parenthesised(status)>>, <<>>)
    ELSE body

\* line 204
ErrorMessage(status, data) ==
    IF Truthy(data.errorMessage) THEN data.errorMessage
    ELSE IF Truthy(data.message) THEN data.message
    ELSE <<"API call failed", Parenthesised(status)>>

\* reading a property of null
NullTypeError == <<"Cannot read properties of null (reading 'error')">>

\* line 207
IsNonRetriable(status, errorMessage) ==
    \/ status = BadRequest
    \/ includes(toLowerCase(errorMessage), "safety")
    \/ includes(toLowerCase(errorMessage), "blocked")
\* a try block that takes a success status with an unreadable body for a failure
TryBlockRejectsNonJson(settled, isLastAttempt) ==
    IF settled.kind = "rejected"
    THEN [do |-> "raise", error |-> settled.error]
    ELSE LET status == settled.status
             data   == ParseBody(status, settled.body)
         IN  IF ~IsOk(status) \/ settled.body.json = "invalid"
             THEN IF data.json = "null"
                  THEN [do |-> "raise", error |-> NullTypeError]
                  ELSE LET errorMessage == ErrorMessage(status, data) IN
                       IF IsNonRetriable(status, errorMessage)
                       THEN [do |-> "raise",
                             error |-> <<Bracketed(status)>> \o errorMessage]
                       ELSE IF isLastAttempt
                       THEN [do |-> "raise", error |-> errorMessage]
                       ELSE [do |-> "continue", error |-> <<>>]
             ELSE [do |-> "return", error |-> <<>>]

\* lines 184-221, the try block: what it does with a settled fetch
TryBlock(settled, isLastAttempt) ==
    IF settled.kind = "rejected"
    THEN [do |-> "raise", error |-> settled.error]
    ELSE LET status == settled.status
             data   == ParseBody(status, settled.body)
         IN  IF ~IsOk(status)
             THEN IF data.json = "null"
                  THEN [do |-> "raise", error |-> NullTypeError]
                  ELSE LET errorMessage == ErrorMessage(status, data) IN
                       IF IsNonRetriable(status, errorMessage)
                       THEN [do |-> "raise",
                             error |-> <<Bracketed(status)>> \o errorMessage]
                       ELSE IF isLastAttempt
                       THEN [do |-> "raise", error |-> errorMessage]
                       ELSE [do |-> "continue", error |-> <<>>]
             ELSE [do |-> "return", error |-> <<>>]
\* a test that goes by the bad-request marker alone
isSafetyErrorByStatus(errMsg) == includes(errMsg, Bracketed(BadRequest))

\* line 228
isSafetyError(errMsg) ==
    \/ includes(errMsg, Bracketed(BadRequest))
    \/ includes(toLowerCase(errMsg), "safety")
    \/ includes(toLowerCase(errMsg), "blocked")

\* a catch block that logs the exhaustion whether or not a token was pinned
CatchBlockLogsPinned(errMsg, isLastAttempt) ==
    IF isSafetyError(errMsg)
    THEN [do |-> "throw", log |-> FALSE]
    ELSE IF isLastAttempt
    THEN [do |-> "throw", log |-> ~isSafetyError(errMsg)]
    ELSE [do |-> "next", log |-> FALSE]

\* lines 223-257, the catch block: rethrow (with or without a log record) or
\* fall through to the next iteration
CatchBlock(errMsg, isLastAttempt) ==
    IF isSafetyError(errMsg)
    THEN [do |-> "throw", log |-> FALSE]
    ELSE IF isLastAttempt
    THEN [do |-> "throw", log |-> ~Truthy(specificToken) /\ ~isSafetyError(errMsg)]
    ELSE [do |-> "next", log |-> FALSE]

\* lines 245-252
LogEntry(errMsg) ==
    [model |-> logContext,
     prompt |-> <<"Failed after", ToString(Len(attempts)), "attempts">>,
     output |-> errMsg, tokenCount |-> 0, status |-> "Error", error |-> errMsg]

\* lines 181-192: the request of one attempt
HttpCall(attempt) ==
    [endpoint      |-> <<attempt.serverUrl, "/api/", serviceType, relativePath>>,
     method        |-> "POST",
     authorization |-> <<"Bearer", attempt.token>>,
     body          |-> requestBody]

\* a return that reports the first attempt of the plan
ReturnValueOfFirst(data, attempt) ==
    [data |-> data, successfulToken |-> attempts[1].token,
     successfulServerUrl |-> attempts[1].serverUrl]

\* line 221
ReturnValue(data, attempt) ==
    [data |-> data, successfulToken |-> attempt.token,
     successfulServerUrl |-> attempt.serverUrl]

NoTokensError == <<"No authentication tokens found.", "Please claim a token in Settings.">>
UnknownError  == <<"Unknown error">>

-----------------------------------------------------------------------------
(* The console log sidebar (src/components/ConsoleLogSidebar.tsx) *)

\* line 25: slice(-200)
LogCap == 200

\* the most 'consoleLog' events the sidebar is sent
MaxArrivals == 202

Levels == <<"log", "warn", "error", "debug">>

\* lines 6-10: the n-th event that is emitted
LogEvent(n) == [level |-> Levels[(n % 4) + 1], message |-> n, timestamp |-> n]

\* a handler that keeps the oldest entries
handleLogKeepOldest(prevLogs, data) == SliceTo(Append(prevLogs, data), LogCap)

\* line 25: [...prevLogs, data].slice(-200)
handleLog(prevLogs, data) == SliceLast(Append(prevLogs, data), LogCap)

\* line 18: useState([])
SidebarMounted == logs = <<>> /\ sinceClear = <<>> /\ arrivals = 0

-----------------------------------------------------------------------------
(* The API panel of the settings (src/components/views/SettingsView.tsx) *)

\* the most tests of shared tokens that run at once
MaxTests == 2

\* the tokens of the pool that the panel lists
PanelTokens == { T3, T4 }

\* what runComprehensiveTokenTest resolves to
TestOutcomes == { <<"Imagen", "Veo">>, <<>> }

\* what saveUserPersonalAuthToken(currentUser.id, null) resolves to
ClearResults ==
    { [success |-> TRUE, message |-> <<>>],
      [success |-> FALSE, message |-> <<>>],
      [success |-> FALSE, message |-> <<"User not found">>] }

\* what assignTokenProcess() resolves to
AssignResults ==
    { [success |-> TRUE, error |-> <<>>],
      [success |-> FALSE, error |-> <<>>],
      [success |-> FALSE, error |-> <<"No tokens available">>] }

\* lines 336-343: the initial state of the panel
PanelMounted ==
    /\ claimStatus = "idle"
    /\ claimError = <<>>
    /\ claimStep = "idle"
    /\ claimTrace = <<>>
    /\ testingToken = <<>>
    /\ testResultsMap = [t \in PanelTokens |-> <<>>]
    /\ testsInFlight = [t \in PanelTokens |-> 0]

-----------------------------------------------------------------------------
(* The dispatch *)

\* lines 91-99: the second call has not been made yet
PeerIdle ==
    [pc |-> "idle", currentServerUrl |-> "", attempts |-> <<>>, usedAttempts |-> {},
     i |-> 0, lastError |-> UnknownError, result |-> <<>>, thrown |-> <<>>,
     httpCalls |-> <<>>, gateCalls |-> <<>>, gateOutcome |-> <<>>, logEntries |-> <<>>,
     heard |-> <<>>, shuffledPool |-> <<>>, backupServers |-> <<>>]

Init ==
    /\ \E d \in Deployments : hostname = d[1] /\ selectedProxyServer = d[2]
    /\ personalAuthToken \in PersonalTokens
    /\ veoAuthTokens \in Pools
    /\ serviceType \in ServiceTypes
    /\ logContext \in LogContexts
    /\ specificToken \in SpecificTokens
    /\ overrideServerUrl \in OverrideServers
    /\ relativePath = "/generate-t2v"
    /\ requestBody = [prompt |-> "a fox"]
    /\ pc = "start"
    /\ currentServerUrl = ""
    /\ attempts = <<>>
    /\ usedAttempts = {}
    /\ i = 0
    /\ lastError = UnknownError
    /\ result = <<>>
    /\ thrown = <<>>
    /\ resp = <<>>
    /\ httpCalls = <<>>
    /\ pending = {}
    /\ gateCalls = <<>>
    /\ gateOutcome = <<>>
    /\ statusUpdates = <<>>
    /\ logEntries = <<>>
    /\ peer = PeerIdle
    /\ SidebarMounted
    /\ PanelMounted

\* a loop that walks the plan from its end
IterateBackwards(k, plan) ==
    IF k < Len(plan)
    THEN /\ i' = k
         /\ httpCalls' = Append(httpCalls, HttpCall(plan[Len(plan) - k]))
         /\ pending' = (pending \ { k }) \cup { k + 1 }
         /\ pc' = "fetch"
         /\ UNCHANGED outputs
    ELSE /\ i' = k
         /\ pending' = pending \ { k }
         /\ pc' = "thrown"
         /\ thrown' = <<lastError'>>
         /\ UNCHANGED <<httpCalls, result>>

\* a loop that sends the request of an attempt twice
IterateTwice(k, plan) ==
    IF k < Len(plan)
    THEN /\ i' = k
         /\ httpCalls' = Append(Append(httpCalls, HttpCall(plan[k + 1])),
                                HttpCall(plan[k + 1]))
         /\ pending' = (pending \ { k }) \cup { k + 1 }
         /\ pc' = "fetch"
         /\ UNCHANGED outputs
    ELSE /\ i' = k
         /\ pending' = pending \ { k }
         /\ pc' = "thrown"
         /\ thrown' = <<lastError'>>
         /\ UNCHANGED <<httpCalls, result>>

\* a loop that goes back to the first attempt instead of trying the last
IterateAgain(k, plan) ==
    LET j == IF k + 1 < Len(plan) THEN k ELSE 0 IN
    /\ i' = j
    /\ httpCalls' = IF j = k THEN Append(httpCalls, HttpCall(plan[j + 1]))
                    ELSE <<HttpCall(plan[1])>>
    /\ pending' = { Len(httpCalls') }
    /\ pc' = "fetch"
    /\ UNCHANGED outputs
\* a loop that resolves the primary server anew before each attempt
IterateResolvingAnew(k, plan) ==
    IF k < Len(plan)
    THEN /\ i' = k
         /\ httpCalls' = Append(httpCalls,
                HttpCall([plan[k + 1] EXCEPT
                            !.serverUrl = IF @ = plan[1].serverUrl /\ overrideServerUrl = ""
                                          THEN ResolveServer ELSE @]))
         /\ pending' = (pending \ { k }) \cup { k + 1 }
         /\ pc' = "fetch"
         /\ UNCHANGED outputs
    ELSE /\ i' = k
         /\ pending' = pending \ { k }
         /\ pc' = "thrown"
         /\ thrown' = <<lastError'>>
         /\ UNCHANGED <<httpCalls, result>>

\* lines 176-192: enter iteration k of the loop, iteration k - 1 being over
\* (or leave the loop, line 260)
Iterate(k, plan) ==
    IF k < Len(plan)
    THEN /\ i' = k
         /\ httpCalls' = Append(httpCalls, HttpCall(plan[k + 1]))
         /\ pending' = (pending \ { k }) \cup { k + 1 }
         /\ pc' = "fetch"
         /\ UNCHANGED outputs
    ELSE /\ i' = k
         /\ pending' = pending \ { k }
         /\ pc' = "thrown"
         /\ thrown' = <<lastError'>>
         /\ UNCHANGED <<httpCalls, result>>

\* a dispatch that enters the loop without looking at the plan's length
PlanAndStartUnchecked(server, shuffledPool, backupServers) ==
    LET plan == BuildPlan(server, shuffledPool, backupServers) IN
    /\ attempts' = plan.attempts
    /\ usedAttempts' = plan.usedAttempts
    /\ lastError' = UnknownError
    /\ Iterate(0, plan.attempts)

\* lines 118-178: build the plan, refuse an empty one, start the loop
PlanAndStart(server, shuffledPool, backupServers) ==
    LET plan == BuildPlan(server, shuffledPool, backupServers) IN
    /\ attempts' = plan.attempts
    /\ usedAttempts' = plan.usedAttempts
    /\ lastError' = UnknownError
    /\ IF Len(plan.attempts) = 0
       THEN /\ pc' = "thrown"
            /\ thrown' = <<NoTokensError>>
            /\ UNCHANGED <<i, httpCalls, pending, result>>
       ELSE Iterate(0, plan.attempts)

\* a dispatch that asks for the slot and goes on without awaiting the answer
RequestSlotNoAwait ==
    /\ pc = "start"
    /\ isGenerationRequest
    /\ currentServerUrl' = ResolveServer
    /\ statusUpdates' = statusUpdates \o <<"Queueing...", "Processing...">>
    /\ gateCalls' = Append(gateCalls,
           [fn |-> "request_generation_slot",
            cooldown_seconds |-> CooldownSeconds, server_url |-> ResolveServer])
    /\ \E shuffledPool \in ShuffledPools, backupServers \in BackupChoices(ResolveServer) :
           PlanAndStart(ResolveServer, shuffledPool, backupServers)
    /\ UNCHANGED <<panels, peer, storage, args, resp, gateOutcome, logEntries>>

\* a dispatch that asks for the slot of the server the resolver names, whatever
\* server the caller asked for
RequestSlotKeyedByResolver ==
    /\ pc = "start"
    /\ isGenerationRequest
    /\ currentServerUrl' = ResolveServer
    /\ statusUpdates' = Append(statusUpdates, "Queueing...")
    /\ gateCalls' = Append(gateCalls,
           [fn |-> "request_generation_slot",
            cooldown_seconds |-> CooldownSeconds,
            server_url |-> IF serviceType = "veo" THEN getVeoProxyUrl
                           ELSE getImagenProxyUrl])
    /\ pc' = "gate"
    /\ UNCHANGED <<panels, peer, storage, args, attempts, usedAttempts, i, lastError, outputs,
                   resp, httpCalls, pending, gateOutcome, logEntries>>

\* lines 100-114 of a generation request: up to the await of the slot
RequestSlot ==
    /\ pc = "start"
    /\ isGenerationRequest
    /\ currentServerUrl' = ResolveServer
    /\ statusUpdates' = Append(statusUpdates, "Queueing...")
    /\ gateCalls' = Append(gateCalls,
           [fn |-> "request_generation_slot",
            cooldown_seconds |-> CooldownSeconds, server_url |-> ResolveServer])
    /\ pc' = "gate"
    /\ UNCHANGED <<panels, peer, storage, args, attempts, usedAttempts, i, lastError, outputs,
                   resp, httpCalls, pending, gateOutcome, logEntries>>

\* lines 100-192 of any other request: up to the await of the first fetch
StartDirect ==
    /\ pc = "start"
    /\ ~isGenerationRequest
    /\ currentServerUrl' = ResolveServer
    /\ \E shuffledPool \in ShuffledPools, backupServers \in BackupChoices(ResolveServer) :
           PlanAndStart(ResolveServer, shuffledPool, backupServers)
    /\ UNCHANGED <<panels, peer, storage, args, resp, gateCalls, gateOutcome, statusUpdates,
                   logEntries>>
\* a dispatch that goes on from the slot call without telling the caller
SlotGrantedUnannounced ==
    /\ pc = "gate"
    /\ gateOutcome' = <<"granted">>
    /\ UNCHANGED statusUpdates
    /\ \E shuffledPool \in ShuffledPools, backupServers \in BackupChoices(currentServerUrl) :
           PlanAndStart(currentServerUrl, shuffledPool, backupServers)
    /\ UNCHANGED <<panels, peer, storage, args, currentServerUrl, resp, gateCalls, logEntries>>

\* lines 114-192: the slot call returns
SlotGranted ==
    /\ pc = "gate"
    /\ gateOutcome' = <<"granted">>
    /\ statusUpdates' = Append(statusUpdates, "Processing...")
    /\ \E shuffledPool \in ShuffledPools, backupServers \in BackupChoices(currentServerUrl) :
           PlanAndStart(currentServerUrl, shuffledPool, backupServers)
    /\ UNCHANGED <<panels, peer, storage, args, currentServerUrl, resp, gateCalls, logEntries>>

\* a dispatch that catches the slot call's error and carries on
SlotFailedSwallowed ==
    /\ pc = "gate"
    /\ \E e \in GateErrors : gateOutcome' = <<"failed", e>>
    /\ statusUpdates' = Append(statusUpdates, "Processing...")
    /\ \E shuffledPool \in ShuffledPools, backupServers \in BackupChoices(currentServerUrl) :
           PlanAndStart(currentServerUrl, shuffledPool, backupServers)
    /\ UNCHANGED <<panels, peer, storage, args, currentServerUrl, resp, gateCalls, logEntries>>

\* line 114: the slot call raises; nothing catches it
SlotFailed ==
    /\ pc = "gate"
    /\ \E e \in GateErrors : gateOutcome' = <<"failed", e>> /\ thrown' = <<e>>
    /\ pc' = "thrown"
    /\ UNCHANGED <<panels, peer, storage, args, currentServerUrl, attempts, usedAttempts, i,
                   lastError, result, resp, httpCalls, pending, gateCalls,
                   statusUpdates, logEntries>>
\* a loop that drops from the stored pool the token of an attempt that failed
FetchSettledEvicting ==
    /\ pc = "fetch"
    /\ \E settled \in Settlements :
         LET attempt       == attempts[i + 1]
             isLastAttempt == i = Len(attempts) - 1
             try           == TryBlock(settled, isLastAttempt)
             catch         == CatchBlock(try.error, isLastAttempt)
             evicted       == SelectSeq(veoAuthTokens,
                                        LAMBDA r : r.token # attempt.token)
         IN
         /\ resp' = <<settled>>
         /\ CASE try.do = "return" ->
                   /\ result' = << ReturnValue(ParseBody(settled.status, settled.body),
                                               attempt) >>
                   /\ pc' = "returned"
                   /\ pending' = pending \ { i + 1 }
                   /\ UNCHANGED <<i, lastError, thrown, httpCalls, logEntries,
                                  veoAuthTokens>>
              [] try.do = "continue" ->
                   /\ veoAuthTokens' = evicted
                   /\ UNCHANGED <<lastError, logEntries>>
                   /\ Iterate(i + 1, attempts)
              [] try.do = "raise" /\ catch.do = "throw" ->
                   /\ veoAuthTokens' = evicted
                   /\ lastError' = try.error
                   /\ logEntries' = IF catch.log
                                    THEN Append(logEntries, LogEntry(try.error))
                                    ELSE logEntries
                   /\ thrown' = <<try.error>>
                   /\ pc' = "thrown"
                   /\ pending' = pending \ { i + 1 }
                   /\ UNCHANGED <<i, result, httpCalls>>
              [] try.do = "raise" /\ catch.do = "next" ->
                   /\ veoAuthTokens' = evicted
                   /\ lastError' = try.error
                   /\ UNCHANGED logEntries
                   /\ Iterate(i + 1, attempts)
    /\ UNCHANGED <<panels, peer, hostname, selectedProxyServer, personalAuthToken, args,
                   currentServerUrl, attempts, usedAttempts, gateCalls, gateOutcome,
                   statusUpdates>>

\* lines 184-258: the fetch of attempt i settles; the rest of the iteration,
\* and the start of the next one
FetchSettled ==
    /\ pc = "fetch"
    /\ \E settled \in Settlements :
         LET attempt       == attempts[i + 1]
             isLastAttempt == i = Len(attempts) - 1
             try           == TryBlock(settled, isLastAttempt)
             catch         == CatchBlock(try.error, isLastAttempt)
         IN
         /\ resp' = <<settled>>
         /\ CASE try.do = "return" ->
                   /\ result' = << ReturnValue(ParseBody(settled.status, settled.body),
                                               attempt) >>
                   /\ pc' = "returned"
                   /\ pending' = pending \ { i + 1 }
                   /\ UNCHANGED <<i, lastError, thrown, httpCalls, logEntries>>
              [] try.do = "continue" ->
                   /\ UNCHANGED <<lastError, logEntries>>
                   /\ Iterate(i + 1, attempts)
              [] try.do = "raise" /\ catch.do = "throw" ->
                   /\ lastError' = try.error
                   /\ logEntries' = IF catch.log
                                    THEN Append(logEntries, LogEntry(try.error))
                                    ELSE logEntries
                   /\ thrown' = <<try.error>>
                   /\ pc' = "thrown"
                   /\ pending' = pending \ { i + 1 }
                   /\ UNCHANGED <<i, result, httpCalls>>
              [] try.do = "raise" /\ catch.do = "next" ->
                   /\ lastError' = try.error
                   /\ UNCHANGED logEntries
                   /\ Iterate(i + 1, attempts)
    /\ UNCHANGED <<panels, peer, storage, args, currentServerUrl, attempts, usedAttempts,
                   gateCalls, gateOutcome, statusUpdates>>

-----------------------------------------------------------------------------
(* The second call: the same code, on its own locals.  In peer, heard is the
   list of the settlements of its fetches, and shuffledPool and backupServers
   are the two shuffles its planner drew. *)

\* how the fetches of the second call settle
PeerSettlements ==
    { Rejected(<<"Failed to fetch">>),
      Response(200, JsonObject(<<>>, <<>>)),
      Response(500, JsonObject(Quota, <<>>)),
      Response(BadRequest, JsonObject(SafetyText, <<>>)) }

\* lines 176-192, 260 for the second call
PeerIterate(p, k) ==
    IF k < Len(p.attempts)
    THEN [p EXCEPT !.i = k, !.pc = "fetch",
                   !.httpCalls = Append(@, HttpCall(p.attempts[k + 1]))]
    ELSE [p EXCEPT !.i = k, !.pc = "thrown", !.thrown = <<p.lastError>>]

\* a planner whose usedAttempts is one set for all the calls
PeerPlanAndStartShared(p, server, shuffledPool, backupServers) ==
    LET alone == BuildPlan(server, shuffledPool, backupServers)
        plan  == addAttempts([attempts |-> <<>>, usedAttempts |-> usedAttempts],
                             alone.attempts)
        q     == [p EXCEPT !.attempts = plan.attempts,
                           !.usedAttempts = plan.usedAttempts,
                           !.lastError = UnknownError,
                           !.shuffledPool = shuffledPool,
                           !.backupServers = backupServers]
    IN  IF Len(plan.attempts) = 0
        THEN [q EXCEPT !.pc = "thrown", !.thrown = <<NoTokensError>>]
        ELSE PeerIterate(q, 0)

\* lines 118-178 for the second call
PeerPlanAndStart(p, server, shuffledPool, backupServers) ==
    LET plan == BuildPlan(server, shuffledPool, backupServers)
        q    == [p EXCEPT !.attempts = plan.attempts,
                          !.usedAttempts = plan.usedAttempts,
                          !.lastError = UnknownError,
                          !.shuffledPool = shuffledPool,
                          !.backupServers = backupServers]
    IN  IF Len(plan.attempts) = 0
        THEN [q EXCEPT !.pc = "thrown", !.thrown = <<NoTokensError>>]
        ELSE PeerIterate(q, 0)

\* lines 184-258 for the second call
PeerSettle(p, settled) ==
    LET attempt       == p.attempts[p.i + 1]
        isLastAttempt == p.i = Len(p.attempts) - 1
        try           == TryBlock(settled, isLastAttempt)
        catch         == CatchBlock(try.error, isLastAttempt)
        q             == [p EXCEPT !.heard = Append(@, settled)]
    IN  CASE try.do = "return" ->
               [q EXCEPT !.pc = "returned",
                         !.result = << ReturnValue(ParseBody(settled.status, settled.body),
                                                   attempt) >>]
          [] try.do = "continue" -> PeerIterate(q, p.i + 1)
          [] try.do = "raise" /\ catch.do = "throw" ->
               [q EXCEPT !.pc = "thrown", !.lastError = try.error,
                         !.thrown = <<try.error>>,
                         !.logEntries =
                             IF catch.log
                             THEN Append(@, [LogEntry(try.error) EXCEPT !.prompt =
                                      <<"Failed after", ToString(Len(p.attempts)),
                                        "attempts">>])
                             ELSE @]
          [] try.do = "raise" /\ catch.do = "next" ->
               PeerIterate([q EXCEPT !.lastError = try.error], p.i + 1)

\* lines 91-99: the second call is made
PeerCall ==
    /\ peer.pc = "idle"
    /\ peer' = [peer EXCEPT !.pc = "start"]
    /\ UNCHANGED <<panels, storage, args, locals, outputs, world>>

\* lines 100-114
PeerRequestSlot ==
    /\ peer.pc = "start"
    /\ isGenerationRequest
    /\ peer' = [peer EXCEPT !.pc = "gate", !.currentServerUrl = ResolveServer,
                            !.gateCalls = Append(@,
                                [fn |-> "request_generation_slot",
                                 cooldown_seconds |-> CooldownSeconds,
                                 server_url |-> ResolveServer])]
    /\ UNCHANGED <<panels, storage, args, locals, outputs, world>>

\* lines 100-192
PeerStartDirect ==
    /\ peer.pc = "start"
    /\ ~isGenerationRequest
    /\ \E shuffledPool \in ShuffledPools, backupServers \in BackupChoices(ResolveServer) :
           peer' = PeerPlanAndStart([peer EXCEPT !.currentServerUrl = ResolveServer],
                                    ResolveServer, shuffledPool, backupServers)
    /\ UNCHANGED <<panels, storage, args, locals, outputs, world>>

\* lines 114-192
PeerSlotGranted ==
    /\ peer.pc = "gate"
    /\ \E shuffledPool \in ShuffledPools,
          backupServers \in BackupChoices(peer.currentServerUrl) :
           peer' = PeerPlanAndStart([peer EXCEPT !.gateOutcome = <<"granted">>],
                                    peer.currentServerUrl, shuffledPool, backupServers)
    /\ UNCHANGED <<panels, storage, args, locals, outputs, world>>

\* line 114
PeerSlotFailed ==
    /\ peer.pc = "gate"
    /\ \E e \in GateErrors :
           peer' = [peer EXCEPT !.gateOutcome = <<"failed", e>>, !.thrown = <<e>>,
                                !.pc = "thrown"]
    /\ UNCHANGED <<panels, storage, args, locals, outputs, world>>

\* lines 184-258
PeerFetchSettled ==
    /\ peer.pc = "fetch"
    /\ \E settled \in PeerSettlements : peer' = PeerSettle(peer, settled)
    /\ UNCHANGED <<panels, storage, args, locals, outputs, world>>

\* two calls made by a user without personal token, for a forced server
ConcInit ==
    /\ Init
    /\ hostname = "app.monoklix.com" /\ selectedProxyServer = ""
    /\ personalAuthToken = <<>>
    /\ specificToken = <<>>
    /\ overrideServerUrl = FALLBACK_SERVERS[2]
    /\ serviceType = "veo"
    /\ logContext \in { <<"VEO STATUS">>, <<"VEO", "GENERATE">> }

Next == RequestSlot \/ StartDirect \/ SlotGranted \/ SlotFailed \/ FetchSettled

Spec == Init /\ [][Next]_vars

\* a call in pool mode on a long pool, for veo, from a development machine
\* or from the deployed site with no server selected
PlanInit ==
    /\ \E d \in Deployments : hostname = d[1] /\ selectedProxyServer = d[2]
    /\ selectedProxyServer # "" => hostname = "localhost"
    /\ personalAuthToken = <<>>
    /\ veoAuthTokens \in LedgerPools
    /\ serviceType = "veo"
    /\ logContext \in { <<"VEO STATUS">>, <<"VEO", "GENERATE">> }
    /\ specificToken = <<>>
    /\ overrideServerUrl \in OverrideServers
    /\ relativePath = "/generate-t2v"
    /\ requestBody = [prompt |-> "a fox"]
    /\ pc = "start"
    /\ currentServerUrl = ""
    /\ attempts = <<>>
    /\ usedAttempts = {}
    /\ i = 0
    /\ lastError = UnknownError
    /\ result = <<>>
    /\ thrown = <<>>
    /\ resp = <<>>
    /\ httpCalls = <<>>
    /\ pending = {}
    /\ gateCalls = <<>>
    /\ gateOutcome = <<>>
    /\ statusUpdates = <<>>
    /\ logEntries = <<>>
    /\ peer = PeerIdle
    /\ SidebarMounted
    /\ PanelMounted

\* lines 100-192: the call up to the await of its first fetch
PlanNext == RequestSlot \/ StartDirect \/ SlotGranted \/ SlotFailed

PlanSpec == PlanInit /\ [][PlanNext]_vars

\* the steps of the two calls, interleaved at their awaits
ConcNext ==
    \/ Next
    \/ PeerCall \/ PeerRequestSlot \/ PeerStartDirect
    \/ PeerSlotGranted \/ PeerSlotFailed \/ PeerFetchSettled

ConcSpec == ConcInit /\ [][ConcNext]_vars

-----------------------------------------------------------------------------
(* The panels on their own: no dispatch is running *)

dispatcher == <<storage, args, locals, outputs, world, peer>>

\* the page is open and executeProxiedRequest has not been called
NoDispatch ==
    /\ Init
    /\ hostname = "app.monoklix.com" /\ selectedProxyServer = ""
    /\ personalAuthToken = <<>>
    /\ veoAuthTokens = <<>>
    /\ serviceType = "veo"
    /\ logContext = <<"VEO STATUS">>
    /\ specificToken = <<>>
    /\ overrideServerUrl = ""

\* ConsoleLogSidebar.tsx lines 23-26: a 'consoleLog' event arrives
HandleLog ==
    /\ arrivals < MaxArrivals
    /\ LET data == LogEvent(arrivals + 1)
       IN  /\ logs' = handleLog(logs, data)
           /\ sinceClear' = Append(sinceClear, data)
    /\ arrivals' = arrivals + 1
    /\ UNCHANGED <<settings, dispatcher>>

\* ConsoleLogSidebar.tsx lines 43-45
ClearLogs ==
    /\ logs' = <<>>
    /\ sinceClear' = <<>>
    /\ UNCHANGED <<arrivals, settings, dispatcher>>

SidebarNext == HandleLog \/ ClearLogs

SidebarSpec == NoDispatch /\ [][SidebarNext]_vars

\* the tests of shared tokens that have not resolved yet
TestsRunning ==
    LET RECURSIVE Sum(_)
        Sum(S) == IF S = {} THEN 0
                  ELSE LET t == CHOOSE x \in S : TRUE
                       IN  testsInFlight[t] + Sum(S \ { t })
    IN  Sum(PanelTokens)

\* SettingsView.tsx lines 344-346 and 539-541: a click on the Test button of a
\* token, which is disabled while testingToken is that token; the handler runs
\* up to its await
TestSharedToken(token) ==
    /\ testingToken # token
    /\ TestsRunning < MaxTests
    /\ testingToken' = token
    /\ testsInFlight' = [testsInFlight EXCEPT ![token] = @ + 1]
    /\ UNCHANGED <<claimStatus, claimError, claimStep, claimTrace, testResultsMap,
                   sidebar, dispatcher>>

\* SettingsView.tsx lines 347-349: a test of the token resolves
TestResolved(token) ==
    /\ testsInFlight[token] > 0
    /\ \E results \in TestOutcomes :
          testResultsMap' = [testResultsMap EXCEPT ![token] = <<results>>]
    /\ testingToken' = <<>>
    /\ testsInFlight' = [testsInFlight EXCEPT ![token] = @ - 1]
    /\ UNCHANGED <<claimStatus, claimError, claimStep, claimTrace, sidebar, dispatcher>>

\* SettingsView.tsx lines 372-376, 592 and 672: a click on the claim button,
\* which is disabled unless claimStatus is 'idle', or on Retry in the dialog,
\* which shows it in status 'error'; the handler runs up to its first await
ClaimNewToken ==
    /\ claimStatus \in { "idle", "error" }
    /\ claimStatus' = "searching"
    /\ claimError' = <<>>
    /\ claimStep' = "clearing"
    /\ claimTrace' = << "saveUserPersonalAuthToken" >>
    /\ UNCHANGED <<testingToken, testResultsMap, testsInFlight, sidebar, dispatcher>>

\* a handler that goes on to assign whatever the clearing said
ClaimClearedAssignsAnyway ==
    /\ claimStep = "clearing"
    /\ \E clearResult \in ClearResults :
          /\ claimTrace' = claimTrace \o
                 << IF clearResult.success THEN "cleared" ELSE "not cleared",
                    "onUserUpdate", "assignTokenProcess" >>
          /\ claimStep' = "assigning"
          /\ UNCHANGED <<claimStatus, claimError>>
    /\ UNCHANGED <<testingToken, testResultsMap, testsInFlight, sidebar, dispatcher>>

\* SettingsView.tsx lines 376-384: saveUserPersonalAuthToken resolves
ClaimCleared ==
    /\ claimStep = "clearing"
    /\ \E clearResult \in ClearResults :
          IF clearResult.success = FALSE
          THEN /\ claimError' = IF Truthy(clearResult.message) THEN clearResult.message
                                ELSE << "Failed to clear previous token." >>
               /\ claimStatus' = "error"
               /\ claimStep' = "idle"
               /\ claimTrace' = Append(claimTrace, "not cleared")
          ELSE /\ claimTrace' = claimTrace \o
                      << "cleared", "onUserUpdate", "assignTokenProcess" >>
               /\ claimStep' = "assigning"
               /\ UNCHANGED <<claimStatus, claimError>>
    /\ UNCHANGED <<testingToken, testResultsMap, testsInFlight, sidebar, dispatcher>>

\* SettingsView.tsx lines 384-393: assignTokenProcess resolves
ClaimAssigned ==
    /\ claimStep = "assigning"
    /\ \E assignResult \in AssignResults :
          IF assignResult.success
          THEN /\ claimStatus' = "success"
               /\ claimStep' = "timer"
               /\ claimTrace' = Append(claimTrace, "assigned")
               /\ UNCHANGED claimError
          ELSE /\ claimError' = IF Truthy(assignResult.error) THEN assignResult.error
                                ELSE << "Failed to assign token." >>
               /\ claimStatus' = "error"
               /\ claimStep' = "idle"
               /\ claimTrace' = Append(claimTrace, "not assigned")
    /\ UNCHANGED <<testingToken, testResultsMap, testsInFlight, sidebar, dispatcher>>

\* SettingsView.tsx lines 387-389: the timeout set on success expires
ClaimTimeout ==
    /\ claimStep = "timer"
    /\ claimStatus' = "idle"
    /\ claimStep' = "idle"
    /\ UNCHANGED <<claimError, claimTrace, testingToken, testResultsMap, testsInFlight,
                   sidebar, dispatcher>>

\* SettingsView.tsx lines 300-308 and 591: Close in the dialog, which shows the
\* button in status 'error'
CloseClaimModal ==
    /\ claimStatus = "error"
    /\ claimStatus' = "idle"
    /\ UNCHANGED <<claimError, claimStep, claimTrace, testingToken, testResultsMap,
                   testsInFlight, sidebar, dispatcher>>

SettingsNext ==
    \/ \E token \in PanelTokens : TestSharedToken(token) \/ TestResolved(token)
    \/ ClaimNewToken \/ ClaimCleared \/ ClaimAssigned \/ ClaimTimeout \/ CloseClaimModal

SettingsSpec == NoDispatch /\ [][SettingsNext]_vars

-----------------------------------------------------------------------------
(* One dispatch while the rest of the application writes to the storage.
   JavaScript runs each handler to its next await, so the others write only
   while the dispatch is suspended: at the slot call or at a fetch. *)

\* lines 114 and 184: the dispatch is suspended at an await
Suspended == pc \in { "gate", "fetch" }

\* what the pool is refreshed to
RefreshedPools == { <<>>, << [token |-> T3, createdAt |-> 1] >> }

\* the session's pool is replaced
PoolRefreshed ==
    /\ Suspended
    /\ \E pool \in RefreshedPools : pool # veoAuthTokens /\ veoAuthTokens' = pool
    /\ UNCHANGED <<hostname, selectedProxyServer, personalAuthToken, args, locals,
                   outputs, world, peer, panels>>

\* the user claims, replaces or clears the personal token
PersonalTokenChanged ==
    /\ Suspended
    /\ \E token \in PersonalTokens :
          token # personalAuthToken /\ personalAuthToken' = token
    /\ UNCHANGED <<hostname, selectedProxyServer, veoAuthTokens, args, locals,
                   outputs, world, peer, panels>>

\* the user selects another proxy server, or none
ServerSelected ==
    /\ Suspended
    /\ \E d \in Deployments : d[2] # selectedProxyServer /\ selectedProxyServer' = d[2]
    /\ UNCHANGED <<hostname, personalAuthToken, veoAuthTokens, args, locals,
                   outputs, world, peer, panels>>

\* a call for veo from the deployed site, with no server override, made when
\* no server is selected and no personal token is stored
LiveInit ==
    /\ Init
    /\ hostname = "app.monoklix.com" /\ selectedProxyServer = ""
    /\ personalAuthToken = <<>>
    /\ serviceType = "veo"
    /\ logContext \in { <<"VEO STATUS">>, <<"VEO", "GENERATE">> }
    /\ specificToken = <<>>
    /\ overrideServerUrl = ""

LiveNext == Next \/ PoolRefreshed \/ PersonalTokenChanged \/ ServerSelected

LiveSpec == LiveInit /\ [][LiveNext]_vars

-----------------------------------------------------------------------------
(* Vocabulary of the properties *)

\* the plan has been built: the dispatch is in the loop or past it
PlanBuilt ==
    \/ pc \in { "fetch", "returned" }
    \/ pc = "thrown" /\ gateOutcome # <<"failed", thrown[1]>>

PinnedMode   == specificToken # <<>>
PersonalMode == specificToken = <<>> /\ personalAuthToken # <<>>
PoolMode     == specificToken = <<>> /\ personalAuthToken = <<>>

\* the last six characters of a token
Fingerprint(token) ==
    IF Len(token) <= 6 THEN token ELSE SubSeq(token, Len(token) - 5, Len(token))

LatestCall == httpCalls[Len(httpCalls)]

\* the latest fetch was answered with a success status
AnsweredOk ==
    resp # <<>> /\ resp[1].kind = "response" /\ resp[1].status \in 200..299

\* the error message a failure response carries in its body
BodyMessage(settled) ==
    IF settled.body.errorMessage # <<>> THEN settled.body.errorMessage
    ELSE settled.body.message

SaysSafetyOrBlocked(msg) ==
    \E k \in 1..Len(msg) : msg[k] \in { "safety", "Safety", "blocked", "BLOCKED" }

\* a failure response with the bad-request status or a safety/blocked message
TerminalResponse(settled) ==
    /\ settled.kind = "response"
    /\ settled.status \notin 200..299
    /\ settled.status = 400 \/ SaysSafetyOrBlocked(BodyMessage(settled))

\* a transport error, or a failure response that is not terminal and whose
\* body is an object or not JSON at all
RetriableFailure(settled) ==
    \/ settled.kind = "rejected"
    \/ /\ settled.kind = "response"
       /\ settled.status \notin 200..299
       /\ settled.body.json # "null"
       /\ ~TerminalResponse(settled)

\* the message of a retriable failure
FailureMessage(settled) ==
    IF settled.kind = "rejected" THEN settled.error
    ELSE IF settled.body.json = "invalid"
    THEN <<"Proxy returned non-JSON", "(" \o ToString(settled.status) \o ")">>
    ELSE IF BodyMessage(settled) # <<>> THEN BodyMessage(settled)
    ELSE <<"API call failed", "(" \o ToString(settled.status) \o ")">>

-----------------------------------------------------------------------------
(* Properties *)

\* C1 - stop at first success: once a fetch is answered with a success
\* status, the dispatch has returned, the result names the token and the
\* server of the call that was answered, and that call is the last one issued.
C1_StopAtFirstSuccess ==
    AnsweredOk =>
        /\ pc = "returned"
        /\ Len(result) = 1
        /\ LatestCall.authorization = <<"Bearer", result[1].successfulToken>>
        /\ LatestCall.endpoint[1] = result[1].successfulServerUrl
        /\ result[1].successfulToken = attempts[Len(httpCalls)].token
        /\ result[1].successfulServerUrl = attempts[Len(httpCalls)].serverUrl

\* a success on the second attempt of a longer plan
C1_Witness ==
    /\ pc = "returned"
    /\ Len(httpCalls) = 2
    /\ Len(attempts) > 2
    /\ attempts[1].token # attempts[2].token

\* C2 - exhaustion: when the dispatch throws on a retriable failure (a
\* transport error or a non-terminal failure status), every attempt of the
\* plan was issued and the error thrown carries that last failure's message.
C2_ExhaustionThrowsLast ==
    (pc = "thrown" /\ resp # <<>> /\ RetriableFailure(resp[1])) =>
        /\ Len(httpCalls) = Len(attempts)
        /\ thrown = <<FailureMessage(resp[1])>>

\* C3 - terminal stop: after a response that matches the terminal-failure
\* predicate the dispatch has thrown; no further attempt is in flight.
C3_TerminalStops ==
    (resp # <<>> /\ TerminalResponse(resp[1])) => pc = "thrown"

\* C4 - deduplication: no two entries of the attempt plan have the same last
\* six token characters and the same server.
C4_NoDuplicateAttempts ==
    \A a, b \in 1..Len(attempts) :
        a # b => \/ Fingerprint(attempts[a].token) # Fingerprint(attempts[b].token)
                 \/ attempts[a].serverUrl # attempts[b].serverUrl

\* a plan built in pool mode from a pool that holds one token value twice
\* and two tokens that end alike
C4_Witness ==
    /\ PoolMode /\ PlanBuilt
    /\ \E a, b \in 1..Len(veoAuthTokens) :
           a # b /\ veoAuthTokens[a].token = veoAuthTokens[b].token
    /\ Len(attempts) >= 2

\* C5 - pinned mode: with a specificToken the plan is exactly one attempt,
\* the pinned token against the primary server.
C5_PinnedPlanIsSingle ==
    (PinnedMode /\ PlanBuilt) =>
        /\ Len(attempts) = 1
        /\ attempts[1].token = specificToken
        /\ attempts[1].serverUrl = currentServerUrl

\* a pinned dispatch with a different personal token stored, two records in
\* the pool and no forced server
C5_Witness ==
    /\ PinnedMode /\ PlanBuilt
    /\ personalAuthToken # <<>> /\ personalAuthToken # specificToken
    /\ Len(veoAuthTokens) >= 2
    /\ overrideServerUrl = ""

\* C6 - personal mode: without specificToken and with a personal token the
\* plan is exactly one attempt, the personal token against the primary
\* server; no pool credential and no backup server is in it.
C6_PersonalPlanIsSingle ==
    (PersonalMode /\ PlanBuilt) =>
        attempts = << [token |-> personalAuthToken, serverUrl |-> currentServerUrl,
                       source |-> "Personal"] >>

\* a personal-mode dispatch with a pool of other tokens and no forced server
C6_Witness ==
    /\ PersonalMode /\ PlanBuilt
    /\ \E k \in 1..Len(veoAuthTokens) : veoAuthTokens[k].token # personalAuthToken
    /\ overrideServerUrl = ""
    /\ Len(httpCalls) = 1

\* C7 - server pin: with an overrideServerUrl every attempt of the plan and
\* every fetch issued targets that server.
C7_OverridePinsServer ==
    overrideServerUrl # "" =>
        /\ \A k \in 1..Len(attempts) : attempts[k].serverUrl = overrideServerUrl
        /\ \A k \in 1..Len(httpCalls) : httpCalls[k].endpoint[1] = overrideServerUrl

\* a pool-mode dispatch with a forced server that has issued two fetches,
\* while another server is remembered in the session
C7_Witness ==
    /\ overrideServerUrl # "" /\ PoolMode
    /\ selectedProxyServer # "" /\ selectedProxyServer # overrideServerUrl
    /\ Len(httpCalls) >= 2

C9_NoTokensNoNetwork ==
    thrown = <<NoTokensError>> => httpCalls = <<>> /\ gateCalls = <<>>

\* C10 - empty plan: when the plan built is empty the dispatch has thrown the
\* 'no tokens' error and issued no fetch.
C10_EmptyPlanNoFetch ==
    (PlanBuilt /\ Len(attempts) = 0) =>
        /\ pc = "thrown"
        /\ thrown = << <<"No authentication tokens found.",
                        "Please claim a token in Settings.">> >>
        /\ httpCalls = <<>>

\* an empty plan, of a generation request and of another request
C10_Witness ==
    /\ PlanBuilt /\ Len(attempts) = 0
    /\ PoolMode /\ veoAuthTokens = <<>>

\* the label marks a generation request
GenerationLabel == \E k \in 1..Len(logContext) : logContext[k] \in { "GENERATE", "RECIPE" }

Ended == pc \in { "returned", "thrown" }

\* C11 - gate before attempts: in a generation request no fetch is issued
\* while the slot call is pending, and once a fetch is issued the one slot
\* call, made for the primary server, has been granted.
C11_GateBeforeAttempts ==
    GenerationLabel =>
        /\ (gateOutcome = <<>> => httpCalls = <<>>)
        /\ httpCalls # <<>> =>
               /\ gateOutcome = <<"granted">>
               /\ Len(gateCalls) = 1
               /\ gateCalls[1].server_url = currentServerUrl
               /\ gateCalls[1].server_url = attempts[1].serverUrl

\* a generation request, of either label, that has issued two fetches
C11_Witness ==
    /\ GenerationLabel
    /\ Len(httpCalls) >= 2

\* C12 - gate skip: a request whose label is not a generation label never
\* calls the admission gate.
C12_GateSkipped ==
    ~GenerationLabel => gateCalls = <<>> /\ gateOutcome = <<>>

\* a status check that ran to its end after at least one fetch
C12_Witness ==
    /\ logContext = <<"VEO STATUS">>
    /\ Ended
    /\ Len(httpCalls) >= 1

\* C13 - sequential plan-order execution: the k-th fetch issued is the one
\* of the k-th attempt of the plan, and only the latest fetch issued can be
\* unsettled, so at most one is in flight.
C13_SequentialInPlanOrder ==
    /\ Len(httpCalls) <= Len(attempts)
    /\ \A k \in 1..Len(httpCalls) :
           /\ httpCalls[k].endpoint[1] = attempts[k].serverUrl
           /\ httpCalls[k].authorization = <<"Bearer", attempts[k].token>>
    /\ pending \subseteq { Len(httpCalls) }
    /\ Cardinality(pending) <= 1

\* the third fetch of a plan is in flight
C13_Witness ==
    /\ Len(httpCalls) >= 3
    /\ pending = { Len(httpCalls) }
    /\ attempts[1] # attempts[3]

\* C14 - failure log on exhaustion: when a dispatch without specificToken
\* ends by throwing on a retriable failure, exactly one log record was
\* emitted and it reports the plan's length as the number of attempts.
C14_ExhaustionIsLogged ==
    (specificToken = <<>> /\ pc = "thrown" /\ resp # <<>>
        /\ RetriableFailure(resp[1]) /\ Len(httpCalls) = Len(attempts)) =>
        /\ Len(logEntries) = 1
        /\ logEntries[1].prompt = <<"Failed after", ToString(Len(attempts)), "attempts">>

\* C15 - terminal failures are not logged: a dispatch that ended on a
\* terminal response emitted no log record.
C15_TerminalNotLogged ==
    (Ended /\ resp # <<>> /\ TerminalResponse(resp[1])) => logEntries = <<>>

\* C16 - side-effect budget: the fetches issued are as many as the attempts
\* started, never more than the plan holds, and at most one log record is
\* emitted.
C16_SideEffectBudget ==
    /\ Len(httpCalls) <= Len(attempts)
    /\ attempts # <<>> => Len(httpCalls) = i + 1
    /\ Len(logEntries) <= 1

\* a dispatch that emitted its log record after three fetches
C16_Witness ==
    /\ Len(logEntries) = 1
    /\ Len(httpCalls) >= 3

\* C17 - transport failures are retriable: after a fetch was rejected,
\* either the next attempt is in flight or the rejected one was the last of
\* the plan and its error is the one thrown.
C17_TransportIsRetriable ==
    (resp # <<>> /\ resp[1].kind = "rejected") =>
        \/ pc = "fetch" /\ pending # {}
        \/ /\ pc = "thrown"
           /\ Len(httpCalls) = Len(attempts)
           /\ thrown = <<resp[1].error>>

\* C18 - terminal error carries the status: a dispatch that ended on a
\* terminal response threw that response's message prefixed by its status
\* in brackets.
C18_TerminalCarriesStatus ==
    (Ended /\ resp # <<>> /\ TerminalResponse(resp[1])) =>
        /\ pc = "thrown"
        /\ Len(thrown) = 1
        /\ Head(thrown[1]) = "[" \o ToString(resp[1].status) \o "]"
        /\ resp[1].body.json # "null" => Tail(thrown[1]) = FailureMessage(resp[1])

\* the calls made from the deployed site with no server selected, for veo,
\* as a status check or as a generation: every pool, token and forced server
\* of Init
FairInit ==
    /\ Init
    /\ hostname = "app.monoklix.com" /\ selectedProxyServer = ""
    /\ serviceType = "veo"
    /\ logContext \in { <<"VEO STATUS">>, <<"VEO", "GENERATE">> }

\* lines 110-116, 186: the awaited slot call and every awaited fetch complete
FairSpec ==
    /\ FairInit /\ [][Next]_vars
    /\ WF_vars(RequestSlot \/ StartDirect)
    /\ WF_vars(SlotGranted \/ SlotFailed)
    /\ WF_vars(FetchSettled)

\* the longest plan lines 119-165 can build: the capped pool on the primary
\* server and the capped head of it on each backup server
LongestPlan == NewestPoolTokens + BackupServerCap * BackupTokenCap

\* C19 - termination with a single outcome: when the slot call and every
\* fetch complete, the dispatch ends, either with a returned payload or with
\* one thrown error and never both; it starts no more attempts than the plan
\* holds, the plan holds at most 16, and the attempt index never goes back.
C19_TerminatesOnce ==
    /\ <>Ended
    /\ [](Ended => \/ pc = "returned" /\ Len(result) = 1 /\ thrown = <<>>
                   \/ pc = "thrown" /\ Len(thrown) = 1 /\ result = <<>>)
    /\ [](~Ended => result = <<>> /\ thrown = <<>>)
    /\ [](/\ Len(httpCalls) <= Len(attempts)
          /\ Len(attempts) <= LongestPlan
          /\ LongestPlan = 16)
    /\ [][i' >= i /\ Len(httpCalls') >= Len(httpCalls)]_vars
    /\ [][Ended => UNCHANGED vars]_vars

\* a dispatch that ended by throwing after every attempt of a plan of four
C19_Witness ==
    /\ pc = "thrown"
    /\ Len(attempts) >= 4
    /\ Len(httpCalls) = Len(attempts)

\* the second call has built its plan
PeerPlanBuilt ==
    /\ peer.pc \in { "fetch", "returned", "thrown" }
    /\ Len(peer.gateOutcome) # 2

\* what a call that runs alone with this plan has done when the fetches of
\* its attempts k + 1, k + 2, ... have settled as heard says
RECURSIVE RunAlone(_, _, _, _)
RunAlone(plan, k, heard, lastErr) ==
    LET isLastAttempt == k = Len(plan) - 1
        idle  == [pc |-> "fetch", i |-> k, lastError |-> lastErr,
                  result |-> <<>>, thrown |-> <<>>]
    IN
    IF Len(plan) = 0
    THEN [idle EXCEPT !.pc = "thrown", !.thrown = <<NoTokensError>>]
    ELSE IF Len(heard) = 0 THEN idle
    ELSE LET settled == Head(heard)
             try     == TryBlock(settled, isLastAttempt)
             catch   == CatchBlock(try.error, isLastAttempt)
         IN  CASE try.do = "return" ->
                    [idle EXCEPT !.pc = "returned",
                         !.result = << ReturnValue(ParseBody(settled.status, settled.body),
                                                   plan[k + 1]) >>]
               [] try.do = "continue" -> RunAlone(plan, k + 1, Tail(heard), lastErr)
               [] try.do = "raise" /\ catch.do = "throw" ->
                    [idle EXCEPT !.pc = "thrown", !.lastError = try.error,
                                 !.thrown = <<try.error>>]
               [] try.do = "raise" /\ catch.do = "next" ->
                    RunAlone(plan, k + 1, Tail(heard), try.error)

\* C20 - independent concurrent dispatches: of two interleaved calls, a step
\* of one leaves the plan, dedup set, index, last error, outputs and calls of
\* the other as they were; each dedup set holds the keys of its own plan; and
\* the second call's plan, fetches, index, last error and outcome are those
\* of a call running alone with the same shuffles and the same responses.
C20_IndependentDispatches ==
    /\ [][peer' # peer => UNCHANGED <<storage, args, locals, outputs, world>>]_vars
    /\ [](usedAttempts = { AttemptKey(attempts[k]) : k \in 1..Len(attempts) })
    /\ [](PeerPlanBuilt =>
            LET alone == BuildPlan(peer.currentServerUrl, peer.shuffledPool,
                                   peer.backupServers)
                run   == RunAlone(alone.attempts, 0, peer.heard, UnknownError)
            IN  /\ peer.attempts = alone.attempts
                /\ peer.usedAttempts = alone.usedAttempts
                /\ peer.i = run.i
                /\ peer.lastError = run.lastError
                /\ peer.pc = run.pc
                /\ peer.result = run.result
                /\ peer.thrown = run.thrown
                /\ peer.httpCalls =
                       [k \in 1..(IF Len(alone.attempts) = 0 THEN 0 ELSE run.i + 1)
                           |-> HttpCall(alone.attempts[k])])

\* both calls ended after two fetches each, interleaved, with plans in
\* different orders and different outcomes
C20_Witness ==
    /\ Ended /\ peer.pc \in { "returned", "thrown" }
    /\ Len(httpCalls) = 2 /\ Len(peer.httpCalls) = 2
    /\ attempts # peer.attempts
    /\ pc # peer.pc

\* the tokens of the pool are distinct values
DistinctPoolTokens ==
    \A a, b \in 1..Len(veoAuthTokens) :
        a # b => veoAuthTokens[a].token # veoAuthTokens[b].token

\* C21 - terminal-failure predicate: after a failure response with status
\* 400 or a message that says safety or blocked the dispatch has thrown and
\* no fetch is in flight; after any other failure response the next attempt
\* is in flight, or the response was that of the last attempt.
C21_TerminalPredicate ==
    (resp # <<>> /\ resp[1].kind = "response" /\ ~IsOk(resp[1].status)) =>
        IF resp[1].status = 400 \/ SaysSafetyOrBlocked(BodyMessage(resp[1]))
        THEN pc = "thrown" /\ pending = {}
        ELSE \/ pc = "fetch" /\ pending = { Len(httpCalls) }
             \/ pc = "thrown" /\ Len(httpCalls) = Len(attempts)

\* C22 - phase-1 coverage: in pool mode, with a pool of distinct token
\* values, each of the ten newest credentials has exactly one attempt against
\* the primary server in the plan.
C22_PhaseOneCoverage ==
    (PoolMode /\ PlanBuilt /\ DistinctPoolTokens) =>
        \A r \in 1..Min(Len(veoAuthTokens), NewestPoolTokens) :
            Cardinality({ k \in 1..Len(attempts) :
                            /\ attempts[k].token = getSharedTokensFromSession[r].token
                            /\ attempts[k].serverUrl = currentServerUrl }) = 1

\* the tokens the plan tries on a server, in plan order
TokensTo(server) ==
    LET tried == SelectSeq(attempts, LAMBDA a : a.serverUrl = server)
    IN  [k \in 1..Len(tried) |-> tried[k].token]

\* the servers of the plan other than the primary one
BackupServersOfPlan ==
    { attempts[k].serverUrl : k \in 1..Len(attempts) } \ { currentServerUrl }

\* C23 - pool recency selection: in pool mode every token of the plan is the
\* token of a pool record that fewer than ten records are newer than.
C23_NewestTenOnly ==
    (PoolMode /\ PlanBuilt) =>
        \A k \in 1..Len(attempts) :
            \E j \in 1..Len(veoAuthTokens) :
                /\ veoAuthTokens[j].token = attempts[k].token
                /\ Cardinality({ h \in 1..Len(veoAuthTokens) :
                       veoAuthTokens[h].createdAt > veoAuthTokens[j].createdAt })
                   < NewestPoolTokens

\* a plan built from a pool of more than ten records, whose oldest record
\* holds a token no other record holds
C23_Witness ==
    /\ PoolMode /\ pc = "fetch"
    /\ Len(veoAuthTokens) > NewestPoolTokens
    /\ \E j \in 1..Len(veoAuthTokens) :
           /\ \A h \in 1..Len(veoAuthTokens) :
                  h # j => /\ veoAuthTokens[h].createdAt > veoAuthTokens[j].createdAt
                           /\ veoAuthTokens[h].token # veoAuthTokens[j].token
           /\ \A k \in 1..Len(attempts) : attempts[k].token # veoAuthTokens[j].token

\* C24 - primary before backups: in pool mode the attempts against the
\* primary server come first in the plan, and a fetch is sent to a backup
\* server only after a fetch for each primary-server attempt was sent and
\* has settled.
C24_PrimaryBeforeBackups ==
    (PoolMode /\ PlanBuilt) =>
        /\ \A j, k \in 1..Len(attempts) :
               (j < k /\ attempts[k].serverUrl = currentServerUrl)
                   => attempts[j].serverUrl = currentServerUrl
        /\ \A c \in 1..Len(httpCalls) :
               httpCalls[c].endpoint[1] # currentServerUrl =>
                   /\ c > Len(TokensTo(currentServerUrl))
                   /\ \A b \in 1..Len(TokensTo(currentServerUrl)) :
                          /\ httpCalls[b].endpoint[1] = currentServerUrl
                          /\ b \notin pending

\* a fetch to a backup server is in flight after two primary-server attempts
C24_Witness ==
    /\ PoolMode /\ pc = "fetch"
    /\ Len(TokensTo(currentServerUrl)) = 2
    /\ Len(httpCalls) = 3
    /\ LatestCall.endpoint[1] # currentServerUrl

\* C25 - backup server set: the servers of the plan other than the primary
\* one are at most two, each is in the fallback list, and there are some only
\* in pool mode without override; the primary one is the resolved server.
C25_BackupServerSet ==
    PlanBuilt =>
        /\ Cardinality(BackupServersOfPlan) <= 2
        /\ \A b \in BackupServersOfPlan :
               /\ \E n \in 1..Len(FALLBACK_SERVERS) : FALLBACK_SERVERS[n] = b
               /\ b # ResolveServer
        /\ BackupServersOfPlan # {} => PoolMode /\ overrideServerUrl = ""

\* a plan with two backup servers although three servers differ from the
\* primary one
C25_Witness ==
    /\ PlanBuilt
    /\ \A n \in 1..Len(FALLBACK_SERVERS) : FALLBACK_SERVERS[n] # currentServerUrl
    /\ Cardinality(BackupServersOfPlan) = 2

\* C26 - phase-2 token reuse: in pool mode the tokens tried on a backup
\* server are at most three, they are the tokens tried first on the primary
\* server, in the same order, and every backup server gets the same ones.
C26_BackupTokensReuseShuffle ==
    (PoolMode /\ PlanBuilt) =>
        \A b \in BackupServersOfPlan :
            /\ Len(TokensTo(b)) <= 3
            /\ Len(TokensTo(b)) <= Len(TokensTo(currentServerUrl))
            /\ TokensTo(b) = SubSeq(TokensTo(currentServerUrl), 1, Len(TokensTo(b)))
            /\ \A c \in BackupServersOfPlan : TokensTo(c) = TokensTo(b)

\* a plan from four tokens that end differently: three of them on each of
\* two backup servers, and not the three newest
C26_Witness ==
    /\ PoolMode /\ pc = "fetch"
    /\ Len(TokensTo(currentServerUrl)) = 4
    /\ Cardinality(BackupServersOfPlan) = 2
    /\ \A b \in BackupServersOfPlan :
           /\ Len(TokensTo(b)) = 3
           /\ TokensTo(b)[1] # getSharedTokensFromSession[1].token

\* C27 - plan length bound: for a pool of n records the pool-mode plan holds
\* at most min(n, 10) + 2 * min(n, 3) attempts without override, at most 16
\* and at most 9 when n = 3, and at most min(n, 10) with an override server.
C27_PlanLengthBound ==
    (PoolMode /\ PlanBuilt) =>
        LET n == Len(veoAuthTokens) IN
        /\ overrideServerUrl = "" => Len(attempts) <= Min(n, 10) + 2 * Min(n, 3)
        /\ overrideServerUrl # "" => Len(attempts) <= Min(n, 10)
        /\ Len(attempts) <= 16
        /\ n = 3 => Len(attempts) <= 9

\* the nine attempts of a pool of three
C27_Witness ==
    /\ PoolMode /\ pc = "fetch"
    /\ Len(veoAuthTokens) = 3
    /\ Len(attempts) = 9

\* C28 - no failure log in pinned mode: a dispatch with specificToken set
\* emits no log record, however it ends.
C28_PinnedNeverLogs ==
    PinnedMode => logEntries = <<>>

\* a pinned dispatch threw the retriable failure of its single attempt
C28_Witness ==
    /\ PinnedMode /\ pc = "thrown"
    /\ resp # <<>> /\ RetriableFailure(resp[1])
    /\ ~SaysSafetyOrBlocked(FailureMessage(resp[1]))
    /\ thrown = <<FailureMessage(resp[1])>>

\* the public endpoint of the service
PublicEndpoint == IF serviceType = "veo" THEN VeoDefaultUrl ELSE ImagenDefaultUrl

\* C29 as stated - primary server resolution: the override when present;
\* otherwise the local-development address when running locally, else the
\* public endpoint of the service, else the endpoint the user chose.
C29_ResolutionAsStated ==
    pc # "start" =>
        currentServerUrl =
            IF overrideServerUrl # "" THEN overrideServerUrl
            ELSE IF hostname = "localhost" THEN LocalProxyUrl
            ELSE IF PublicEndpoint # "" THEN PublicEndpoint
            ELSE selectedProxyServer

\* C29 as amended - primary server resolution: the override when present;
\* otherwise the local-development address when running locally, else the
\* endpoint the user chose when there is one, else the public endpoint of the
\* service; the slot is asked for that server and the first attempt goes to it.
C29_PrimaryResolution ==
    pc # "start" =>
        /\ currentServerUrl =
               IF overrideServerUrl # "" THEN overrideServerUrl
               ELSE IF hostname = "localhost" THEN LocalProxyUrl
               ELSE IF selectedProxyServer # "" THEN selectedProxyServer
               ELSE PublicEndpoint
        /\ \A g \in 1..Len(gateCalls) : gateCalls[g].server_url = currentServerUrl
        /\ httpCalls # <<>> => httpCalls[1].endpoint[1] = currentServerUrl

\* a veo call from the deployed site, with a remembered choice and no
\* override, has sent its first fetch to the chosen server
C29_Witness ==
    /\ pc = "fetch"
    /\ serviceType = "veo"
    /\ hostname # "localhost" /\ selectedProxyServer # "" /\ overrideServerUrl = ""
    /\ httpCalls[1].endpoint[1] = selectedProxyServer
    /\ selectedProxyServer # PublicEndpoint

\* the synthetic message of a body that is not JSON
NonJsonMessage(status) == <<"Proxy returned non-JSON", "(" \o ToString(status) \o ")">>

\* C30 - unparseable body on failure: after a failure response whose body is
\* not JSON, a status 400 has made the dispatch throw the synthetic message
\* behind "[400]"; any other status has put the next attempt in flight or,
\* on the last attempt, made the dispatch throw the synthetic message, which
\* is also the one logged.
C30_NonJsonFailure ==
    (resp # <<>> /\ resp[1].kind = "response" /\ ~IsOk(resp[1].status)
        /\ resp[1].body.json = "invalid") =>
        LET status == resp[1].status IN
        /\ status = 400 =>
               /\ pc = "thrown"
               /\ thrown = << <<"[400]">> \o NonJsonMessage(status) >>
               /\ logEntries = <<>>
        /\ status # 400 =>
               \/ pc = "fetch" /\ pending = { Len(httpCalls) } /\ thrown = <<>>
               \/ /\ pc = "thrown"
                  /\ Len(httpCalls) = Len(attempts)
                  /\ thrown = << NonJsonMessage(status) >>
                  /\ \A l \in 1..Len(logEntries) :
                         logEntries[l].error = NonJsonMessage(status)

\* the last attempt of a plan of two was answered 500 with a body that is not
\* JSON, and the synthetic message was thrown and logged
C30_Witness ==
    /\ pc = "thrown"
    /\ Len(attempts) = 2 /\ Len(httpCalls) = 2
    /\ resp[1].status = 500 /\ resp[1].body.json = "invalid"
    /\ Len(logEntries) = 1
    /\ thrown = << <<"Proxy returned non-JSON", "(500)">> >>

-----------------------------------------------------------------------------
(* The panels *)

\* C37: after any sequence of 'consoleLog' events and clearLogs calls the
\* sidebar's log list holds at most 200 entries, and it is the last
\* min(k, 200) of the k entries received since the last clear, in arrival
\* order: the oldest entries are the ones dropped.
C37_BoundedLogBuffer ==
    LET k == Len(sinceClear)
        kept == IF k <= LogCap THEN k ELSE LogCap
    IN  /\ Len(logs) <= LogCap
        /\ Len(logs) = kept
        /\ \A j \in 1..kept : logs[j] = sinceClear[k - kept + j]

\* the list was cleared once and has since dropped its oldest entry
C37_Witness ==
    /\ arrivals > Len(sinceClear)
    /\ Len(sinceClear) > LogCap
    /\ Len(logs) = LogCap
    /\ logs[1] # sinceClear[1]

\* the position of the first occurrence of a word in the trace of the claim
\* flow, 0 when it does not occur
FirstIn(trace, word) ==
    IF \E k \in 1..Len(trace) : trace[k] = word
    THEN CHOOSE k \in 1..Len(trace) :
            trace[k] = word /\ \A j \in 1..(k - 1) : trace[j] # word
    ELSE 0

\* assignTokenProcess is called only after the clearing succeeded
AssignOnlyAfterCleared ==
    FirstIn(claimTrace, "assignTokenProcess") > 0 =>
        /\ FirstIn(claimTrace, "cleared") > 0
        /\ FirstIn(claimTrace, "cleared") < FirstIn(claimTrace, "assignTokenProcess")

\* a failed clearing calls neither assignTokenProcess nor onUserUpdate
FailedClearingCallsNothing ==
    FirstIn(claimTrace, "not cleared") > 0 =>
        /\ FirstIn(claimTrace, "assignTokenProcess") = 0
        /\ FirstIn(claimTrace, "onUserUpdate") = 0

\* the step at which the clearing is found to have failed sets 'error'
FailedClearingSetsError ==
    (claimStep = "clearing" /\ FirstIn(claimTrace', "not cleared") > 0)
        => claimStatus' = "error"

\* the moves of claimStatus that the flow itself makes
FlowMoves ==
    { <<"idle", "searching">>, <<"error", "searching">>, <<"searching", "success">>,
      <<"success", "idle">>, <<"searching", "error">> }

\* The claim-new-token flow as first stated: handleClaimNewToken invokes
\* assignTokenProcess only after the existing personal token was cleared
\* successfully; when clearing fails, assignTokenProcess is never invoked,
\* onUserUpdate is not called and claimStatus becomes 'error'; claimStatus
\* moves only idle/error -> searching -> success -> idle or searching -> error.
C38_FlowAsStated ==
    /\ [](AssignOnlyAfterCleared /\ FailedClearingCallsNothing)
    /\ [][FailedClearingSetsError]_vars
    /\ [][claimStatus' # claimStatus => <<claimStatus, claimStatus'>> \in FlowMoves]_vars

\* C38: handleClaimNewToken invokes assignTokenProcess only after the existing
\* personal token was cleared successfully; when clearing fails,
\* assignTokenProcess is never invoked, onUserUpdate is not called and
\* claimStatus becomes 'error'; claimStatus moves only idle/error -> searching
\* -> success -> idle, searching -> error, or error -> idle when the dialog is
\* closed.
C38_ClaimFlowOrdering ==
    /\ [](AssignOnlyAfterCleared /\ FailedClearingCallsNothing)
    /\ [][FailedClearingSetsError]_vars
    /\ [][claimStatus' # claimStatus =>
             <<claimStatus, claimStatus'>> \in FlowMoves \cup { <<"error", "idle">> }]_vars

\* the clearing failed and the dialog that reported it was closed
C38_Witness ==
    /\ claimStatus = "idle"
    /\ claimTrace = << "saveUserPersonalAuthToken", "not cleared" >>

\* C39: while a test started by handleTestSharedToken for a token is still
\* in flight, testingToken equals that token, so that its Test button stays
\* disabled, also when a test of another token starts or completes meanwhile.
C39_FlagWhileInFlight ==
    \A token \in PanelTokens : testsInFlight[token] > 0 => testingToken = token

-----------------------------------------------------------------------------
(* The gate, the bodies and the log, continued *)

\* C33: the admission gate is called at most once per dispatch, with the
\* primary server URL and a cooldown of 10 seconds; it is never called for a
\* backup server, so attempts against backup servers are issued without a
\* slot having been requested for those servers.
C33_SingleGateCall ==
    /\ Len(gateCalls) <= 1
    /\ \A g \in 1..Len(gateCalls) :
          /\ gateCalls[g].fn = "request_generation_slot"
          /\ gateCalls[g].cooldown_seconds = CooldownSeconds
          /\ gateCalls[g].server_url = currentServerUrl
          /\ gateCalls[g].server_url =
                 (IF overrideServerUrl # "" THEN overrideServerUrl
                  ELSE IF hostname = "localhost" THEN LocalProxyUrl
                  ELSE IF selectedProxyServer # "" THEN selectedProxyServer
                  ELSE PublicEndpoint)
          /\ \A k \in 1..Len(httpCalls) :
                httpCalls[k].endpoint[1] # currentServerUrl =>
                    gateCalls[g].server_url # httpCalls[k].endpoint[1]

\* a generation request in pool mode whose latest fetch went to a backup
\* server, after the one slot call
C33_Witness ==
    /\ GenerationLabel
    /\ Len(gateCalls) = 1
    /\ httpCalls # <<>>
    /\ LatestCall.endpoint[1] # currentServerUrl
    /\ LatestCall.endpoint[1] # gateCalls[1].server_url

\* C34: success depends only on the HTTP status: an attempt answered with an
\* ok status ends the dispatch with success, also when the body is not valid
\* JSON; the data returned is then the synthetic object whose error message
\* is 'Proxy returned non-JSON (status)', and no further attempt is tried.
C34_OkStatusIsSuccess ==
    (resp # <<>> /\ resp[1].kind = "response" /\ IsOk(resp[1].status)) =>
        /\ pc = "returned"
        /\ thrown = <<>>
        /\ pending = {}
        /\ Len(httpCalls) = i + 1
        /\ Len(result) = 1
        /\ resp[1].body.json = "invalid" =>
               result[1].data = [json |-> "object",
                                 errorMessage |-> NonJsonMessage(resp[1].status),
                                 message |-> <<>>]
        /\ resp[1].body.json # "invalid" => result[1].data = resp[1].body

\* the first attempt of a longer plan was answered 200 with a body that is
\* not JSON
C34_Witness ==
    /\ pc = "returned"
    /\ resp[1].body.json = "invalid"
    /\ Len(httpCalls) = 1
    /\ Len(attempts) >= 2
    /\ result[1].data.errorMessage = <<"Proxy returned non-JSON", "(200)">>

\* the message carries the bad-request marker or one of the two words
SuppressedMessage(msg) ==
    \/ \E k \in 1..Len(msg) : msg[k] = "[400]"
    \/ SaysSafetyOrBlocked(msg)

\* C35: no failure log record is ever emitted for a thrown error whose
\* message contains '[400]', 'safety' or 'blocked', whether it came from an
\* HTTP response or from a transport failure and whether or not it occurred
\* on the last attempt; such an error is rethrown at once.
C35_SuppressedByMessage ==
    /\ \A l \in 1..Len(logEntries) : ~SuppressedMessage(logEntries[l].error)
    /\ (thrown # <<>> /\ SuppressedMessage(thrown[1])) => logEntries = <<>>
    /\ (resp # <<>> /\ resp[1].kind = "rejected" /\ SuppressedMessage(resp[1].error)) =>
          /\ pc = "thrown"
          /\ thrown = << resp[1].error >>
          /\ pending = {}
          /\ Len(httpCalls) = i + 1
    /\ (resp # <<>> /\ resp[1].kind = "response" /\ ~IsOk(resp[1].status)
          /\ resp[1].body.json # "null"
          /\ SaysSafetyOrBlocked(BodyMessage(resp[1]))) =>
          /\ pc = "thrown"
          /\ SuppressedMessage(thrown[1])
          /\ Len(httpCalls) = i + 1

\* a transport failure that says 'blocked' on the first attempt of a longer
\* plan: thrown at once, nothing logged
C35_Witness ==
    /\ pc = "thrown"
    /\ resp # <<>> /\ resp[1].kind = "rejected"
    /\ thrown = << <<"load", "blocked">> >>
    /\ Len(httpCalls) = 1
    /\ Len(attempts) >= 2
    /\ logEntries = <<>>

\* C36: in a generation request the callback receives 'Queueing...' exactly
\* once before the slot call and 'Processing...' exactly once after the slot
\* call returns and before the first fetch; in any other request it is never
\* invoked.
C36_StatusCallbackOrder ==
    /\ ~GenerationLabel => statusUpdates = <<>>
    /\ GenerationLabel =>
          /\ pc = "start" => statusUpdates = <<>> /\ gateCalls = <<>>
          /\ (gateCalls # <<>> /\ gateOutcome = <<>>) =>
                 statusUpdates = << "Queueing..." >> /\ httpCalls = <<>>
          /\ gateOutcome = <<"granted">> =>
                 statusUpdates = << "Queueing...", "Processing..." >>
          /\ (gateOutcome # <<>> /\ gateOutcome[1] = "failed") =>
                 statusUpdates = << "Queueing..." >> /\ httpCalls = <<>>
          /\ httpCalls # <<>> =>
                 statusUpdates = << "Queueing...", "Processing..." >>

\* a generation request whose second fetch is in flight
C36_Witness ==
    /\ GenerationLabel
    /\ gateOutcome = <<"granted">>
    /\ Len(httpCalls) = 2
    /\ statusUpdates = << "Queueing...", "Processing..." >>

-----------------------------------------------------------------------------
(* The dispatch and the storage *)

\* C31: the plan is a fixed snapshot: once the loop of a dispatch has
\* started, changes made by others to the shared pool, the personal token or
\* the selected server do not change the remaining attempts; the plan is
\* built once, and each attempt sends the same path, service kind and body.
C31_PlanIsSnapshot ==
    /\ [][PlanBuilt => /\ attempts' = attempts
                       /\ usedAttempts' = usedAttempts
                       /\ currentServerUrl' = currentServerUrl]_vars
    /\ [][httpCalls # <<>> => SubSeq(httpCalls', 1, Len(httpCalls)) = httpCalls]_vars
    /\ [](\A k \in 1..Len(httpCalls) :
            httpCalls[k] =
                [endpoint      |-> <<attempts[k].serverUrl, "/api/", serviceType,
                                     relativePath>>,
                 method        |-> "POST",
                 authorization |-> <<"Bearer", attempts[k].token>>,
                 body          |-> requestBody])

\* the second fetch of a plan is in flight while the pool, the personal token
\* and the selected server are no longer what the plan was built from
C31_Witness ==
    /\ pc = "fetch"
    /\ Len(httpCalls) = 2
    /\ attempts[1].serverUrl = VeoDefaultUrl
    /\ selectedProxyServer # ""
    /\ personalAuthToken # <<>>
    /\ attempts[2].source = "Pool"
    /\ \A r \in 1..Len(veoAuthTokens) : veoAuthTokens[r].token # attempts[2].token

\* C32: the credential sources are read-only: no step of a dispatch,
\* whatever its outcome, modifies the stored shared pool, the stored personal
\* token or the stored server selection; a failing token stays in the pool.
C32_SourcesReadOnly ==
    [][(locals' # locals \/ outputs' # outputs \/ world' # world)
          => storage' = storage]_vars

\* a dispatch in pool mode ended in failure and the token of its last attempt
\* is still in the pool
C32_Witness ==
    /\ pc = "thrown"
    /\ httpCalls # <<>>
    /\ attempts[Len(attempts)].source = "Pool"
    /\ \E r \in 1..Len(veoAuthTokens) :
          veoAuthTokens[r].token = attempts[Len(attempts)].token

====
